---------------------------- MODULE Spec2Model ----------------------------
(***************************************************************************)
(* File-attributes query and user enumeration of remacs                    *)
(* (rust_src/src/dired.rs and rust_src/src/dired_unix.rs), the             *)
(* cfg(not(windows)) build.                                                *)
(*                                                                         *)
(* The two source files hold two implementations of the same operations:   *)
(*   dired.rs       file_attributes, file_attributes_internal,             *)
(*                  file_attributes_common, get_strings, get_users         *)
(*   dired_unix.rs  file_attributes_intro, file_attributes_rust_internal2, *)
(*                  file_attributes_core, to_idfstring, get_users          *)
(* They differ in the integer types of FileAttrs (i32/i64 against          *)
(* u32/u64).  Every operation takes the implementation as `impl`.          *)
(*                                                                         *)
(* Text is a sequence of one-character strings.  An integer is the record  *)
(* [h, m, r] standing for h * 2^63 + m * 2^31 + r with 0 <= r < 2^31: a    *)
(* u32 has h = 0 and m \in {0,1}, a u64 has h \in {0,1}; the same bits     *)
(* read as i32 (as i64) have m = -1 (h = -1) where the top bit is set.     *)
(***************************************************************************)
EXTENDS Integers, Sequences, FiniteSets, TLC

(***************************************************************************)
(* Bounds of the model.                                                    *)
(***************************************************************************)
MaxUsers == 2
MaxGroups == 1

(***************************************************************************)
(* Text                                                                    *)
(***************************************************************************)
Upper == <<"S", "T", "R", "I", "N", "G">>
Lower == <<"s", "t", "r", "i", "n", "g">>

\* char::to_lowercase on the letters the model uses; every other character
\* of the model's alphabet is its own lower case.
CharToLower(c) ==
    IF \E i \in DOMAIN Upper : Upper[i] = c
    THEN Lower[CHOOSE i \in DOMAIN Upper : Upper[i] = c]
    ELSE c

\* str::to_lowercase
to_lowercase(s) == [i \in DOMAIN s |-> CharToLower(s[i])]

\* A byte that starts no valid UTF-8 sequence, and U+FFFD.
BadByte == "\\xFF"
Replacement == "\\uFFFD"

\* String::from_utf8_lossy: every invalid byte becomes U+FFFD.
from_utf8_lossy(bytes) ==
    [i \in DOMAIN bytes |-> IF bytes[i] = BadByte THEN Replacement ELSE bytes[i]]

\* CStr::to_str / Path::to_str: Some(text) exactly for valid UTF-8.
IsUtf8(bytes) == \A i \in DOMAIN bytes : bytes[i] # BadByte

(***************************************************************************)
(* Integers with their width                                               *)
(***************************************************************************)
Num(h, m, r) == [h |-> h, m |-> m, r |-> r]

Zero == Num(0, 0, 0)

\* `x as i32` of a u32: the same 32 bits, bit 31 as the sign.
AsI32(u) == IF u.m = 1 THEN Num(u.h, -1, u.r) ELSE u

\* `x as i64` of a u64: the same 64 bits, bit 63 as the sign.
AsI64(u) == IF u.h = 1 THEN Num(-1, u.m, u.r) ELSE u

IsNonNegative(n) ==
    \/ n.h > 0
    \/ n.h = 0 /\ n.m > 0
    \/ n.h = 0 /\ n.m = 0 /\ n.r >= 0

(***************************************************************************)
(* Host values (LispObject)                                                *)
(***************************************************************************)
Val(k, n, s) == [k |-> k, n |-> n, s |-> s]

Qnil == Val("nil", Zero, <<>>)
Qt == Val("t", Zero, <<>>)
Symbol(name) == Val("symbol", Zero, name)
LispString(text) == Val("string", Zero, text)
\* LispObject::from_natnum(n): the host's non-negative-integer constructor
\* is handed n.
from_natnum(n) == Val("natnum", n, <<>>)
\* make_lisp_time(timespec { tv_sec, tv_nsec }): the host time value of
\* the pair, kept as the pair (tv_sec in m, tv_nsec in r).
make_lisp_time(sec, nsec) == Val("time", [h |-> 0, m |-> sec, r |-> nsec], <<>>)
\* lists::list(&mut attrs)
list(items) == Val("list", Zero, items)

is_nil(o) == o.k = "nil"
is_not_nil(o) == ~is_nil(o)

(***************************************************************************)
(* The operating system: files, the passwd and group databases             *)
(***************************************************************************)
Stat(nlink, uid, gid, size, ino, dev, sec, nsec) ==
    [nlink |-> nlink, uid |-> uid, gid |-> gid, size |-> size, ino |-> ino,
     dev |-> dev, sec |-> sec, nsec |-> nsec]

Uid0 == Num(0, 0, 0)
Uid7 == Num(0, 0, 7)
\* An id with bit 31 set, and 64-bit values with bit 63 set.
UidHigh == Num(0, 1, 5)
GidHigh == Num(0, 1, 6)
SmallStat == Stat(Num(0, 0, 1), Uid0, Uid0, Num(0, 0, 5), Num(0, 0, 11),
                  Num(0, 0, 2), 3, 4)
UserStat == Stat(Num(0, 0, 2), Uid7, Uid0, Num(0, 1, 0), Num(0, 0, 12),
                 Num(0, 0, 2), 5, 0)
MixedStat == Stat(Num(0, 0, 1), Uid0, GidHigh, Num(0, 0, 0), Num(0, 0, 14),
                  Num(0, 0, 2), 6, 1)
BigStat == Stat(Num(1, 0, 1), UidHigh, Uid7, Num(1, 0, 0), Num(1, 1, 7),
                Num(1, 0, 2), 7, 9)
LinkStat == Stat(Num(0, 0, 1), Uid7, Uid7, Num(0, 0, 2), Num(0, 0, 13),
                 Num(0, 0, 2), 8, 8)

File(kind, target, st) == [kind |-> kind, target |-> target, st |-> st]

P_f == <<"/", "f">>
P_d == <<"/", "d">>
P_df == <<"/", "d", "/", "f">>
P_m == <<"/", "m">>
P_b == <<"/", "b">>
P_l == <<"/", "l">>
P_k == <<"/", "k">>
P_g == <<"/", "g">>
P_o == <<"/", "o">>
P_p == <<"/", "p">>
P_x == <<"/", "x">>
P_rf == <<"/", "r", "/", "f">>
P_rx == <<"/", "r", "/", "x">>
P_bad == <<"/", BadByte>>
P_u == <<"/", "u">>
P_dot_end == <<"/", "d", "/", "a", ".">>
P_dot_start == <<"/", ".", "b">>
P_dots == <<"/", "a", ".", "b", ".", "c">>

\* The files of the model: regular files, directories, symbolic links (to
\* a file, to a directory, to a missing target, to itself, to a name that
\* is not valid UTF-8, with a dot at the end, at the start and twice in the
\* link's own name), and an entry the process may not read.  "/x" and
\* "/r/x" do not exist.
Files ==
    (P_f :> File("reg", <<>>, SmallStat)) @@
    (P_d :> File("dir", <<>>, UserStat)) @@
    (P_df :> File("reg", <<>>, UserStat)) @@
    (P_m :> File("reg", <<>>, MixedStat)) @@
    (P_b :> File("reg", <<>>, BigStat)) @@
    (P_l :> File("lnk", P_f, LinkStat)) @@
    (P_k :> File("lnk", P_d, LinkStat)) @@
    (P_g :> File("lnk", P_x, LinkStat)) @@
    (P_o :> File("lnk", P_o, LinkStat)) @@
    (P_p :> File("denied", <<>>, SmallStat)) @@
    (P_rf :> File("reg", <<>>, SmallStat)) @@
    (P_bad :> File("reg", <<>>, SmallStat)) @@
    (P_u :> File("lnk", P_bad, LinkStat)) @@
    (P_dot_end :> File("lnk", P_f, LinkStat)) @@
    (P_dot_start :> File("lnk", P_f, LinkStat)) @@
    (P_dots :> File("lnk", P_f, LinkStat))

\* The kernel reads "//" as "/".
RECURSIVE CollapseSlashes(_)
CollapseSlashes(p) ==
    IF Len(p) < 2 THEN p
    ELSE IF p[1] = "/" /\ p[2] = "/" THEN CollapseSlashes(Tail(p))
    ELSE <<p[1]>> \o CollapseSlashes(Tail(p))

Ok(v) == [ok |-> TRUE, v |-> v, errno |-> "none"]
Err(e) == [ok |-> FALSE, v |-> File("none", <<>>, SmallStat), errno |-> e]

\* stat(2): the entry the path names, symbolic links followed.
RECURSIVE FollowStat(_, _)
FollowStat(p, hops) ==
    LET q == CollapseSlashes(p) IN
    IF q \notin DOMAIN Files THEN Err("ENOENT")
    ELSE IF Files[q].kind = "denied" THEN Err("EACCES")
    ELSE IF Files[q].kind = "lnk"
         THEN IF hops = 0 THEN Err("ELOOP")
              ELSE FollowStat(Files[q].target, hops - 1)
    ELSE Ok(Files[q])

\* std::fs::metadata(path)
fs_metadata(p) == FollowStat(p, Cardinality(DOMAIN Files))

\* std::fs::read_link(path): Ok(target) exactly for a symbolic link.
fs_read_link(p) ==
    LET q == CollapseSlashes(p) IN
    IF q \notin DOMAIN Files THEN Err("ENOENT")
    ELSE IF Files[q].kind = "denied" THEN Err("EACCES")
    ELSE IF Files[q].kind = "lnk" THEN Ok(Files[q])
    ELSE Err("EINVAL")

\* Entries the passwd and the group database may hold: a name per id, one
\* of them not valid UTF-8.  No entry is offered for UidHigh and GidHigh.
Name_rt == <<"r", "t">>
Name_al == <<"a", "l">>
Name_bad == <<"b", BadByte>>
PwEntry(id, name) == [id |-> id, name |-> name]
PwEntries ==
    {PwEntry(Uid0, Name_rt), PwEntry(Uid7, Name_al), PwEntry(Uid7, Name_bad)}
GrEntries == {PwEntry(Uid0, Name_rt), PwEntry(Uid7, Name_bad)}

SeqsUpTo(S, n) == UNION {[1..k -> S] : k \in 0..n}

\* globals.Vuser_real_login_name
UserRealLoginName == LispString(<<"m", "e">>)


(***************************************************************************)
(* State                                                                   *)
(***************************************************************************)
VARIABLES
    pwdb,       \* the passwd database, in enumeration order (unchanged)
    grdb,       \* the group database (unchanged)
    pwopen,     \* the process-global getpwent cursor is open
    pwcursor,   \* number of entries the open cursor has passed
    call,       \* the last operation called, with its arguments
    attrs,      \* the FileAttrs of the last call, as get() left it
    result,     \* how the last call ended, and the value it returned
    trace       \* the calls the last call made to the host and the OS

vars == <<pwdb, grdb, pwopen, pwcursor, call, attrs, result, trace>>

Impls == {"dired", "dired_unix"}

Ev(fn, args) == [fn |-> fn, args |-> args]

Null == PwEntry(Zero, <<>>)

\* The first entry of db with the given id, or no entry.
Lookup(db, id) ==
    LET hits == {i \in DOMAIN db : db[i].id = id} IN
    IF hits = {} THEN [found |-> FALSE, e |-> Null]
    ELSE [found |-> TRUE, e |-> db[CHOOSE i \in hits : \A j \in hits : i <= j]]

\* libc::getpwuid(uid), libc::getgrgid(gid)
getpwuid(uid) == Lookup(pwdb, uid)
getgrgid(gid) == Lookup(grdb, gid)

(***************************************************************************)
(* Host collaborators of the query                                         *)
(***************************************************************************)
Qfile_attributes == Symbol(<<"f", "a">>)

\* default-directory of the calling buffer
DefaultDirectory == <<"/", "d", "/">>

\* Fexpand_file_name(filename, Qnil): an absolute name is kept, a relative
\* one is put under the default directory.
Fexpand_file_name(filename) ==
    IF Len(filename.s) > 0 /\ filename.s[1] = "/" THEN filename
    ELSE LispString(DefaultDirectory \o filename.s)

\* The prefixes a file-name handler is installed for: "/r/", and "r/" under
\* the default directory.
HandlerPrefix == <<"/", "r", "/">>
HandlerPrefixUnderDefault == DefaultDirectory \o <<"r", "/">>

IsPrefix(pre, s) == Len(pre) <= Len(s) /\ SubSeq(s, 1, Len(pre)) = pre

TheHandler == Symbol(<<"h">>)

\* Ffind_file_name_handler(fnexp, Qfile_attributes)
Ffind_file_name_handler(fnexp, op) ==
    IF IsPrefix(HandlerPrefix, fnexp.s) \/ IsPrefix(HandlerPrefixUnderDefault, fnexp.s)
    THEN TheHandler
    ELSE Qnil

\* What the handler returns: a host value of its own, one per argument list.
HandlerValue(args) ==
    Val("handled", Num(0, 0, Len(args)), args[2].s \o <<"|">> \o args[Len(args)].s)

\* filemode_string(path)
filemode_string(path) == Val("modes", Zero, path.s)

(***************************************************************************)
(* LispObjectExt, get_strings                                              *)
(***************************************************************************)
\* LispObject::symbol_or_string_as_string: the symbol's name or the string.
symbol_or_string_as_string(o) == o.s

\* LispObjectExt::to_stdstring
to_stdstring(o) == from_utf8_lossy(o.s)

NOTstring == <<"N", "O", "T", "s", "t", "r", "i", "n", "g">>
string == <<"s", "t", "r", "i", "n", "g">>

\* to_idfstring without the lower-casing.
to_idfstring_case_sensitive(id_format) ==
    IF is_nil(id_format) THEN NOTstring
    ELSE symbol_or_string_as_string(id_format)

\* LispObjectExt::to_idfstring (dired_unix.rs) and the id_format half of
\* get_strings (dired.rs)
to_idfstring(id_format) ==
    IF is_nil(id_format) THEN NOTstring
    ELSE to_lowercase(symbol_or_string_as_string(id_format))


(***************************************************************************)
(* StringExt                                                               *)
(***************************************************************************)
\* StringExt::to_bstring: build_string of the text.
to_bstring(text) == LispString(text)

RECURSIVE StripTrailingSlashes(_)
StripTrailingSlashes(p) ==
    IF Len(p) > 1 /\ p[Len(p)] = "/"
    THEN StripTrailingSlashes(SubSeq(p, 1, Len(p) - 1))
    ELSE p

LastIndexOf(c, p) ==
    LET hits == {i \in DOMAIN p : p[i] = c} IN
    IF hits = {} THEN 0 ELSE CHOOSE i \in hits : \A j \in hits : j <= i

\* Path::file_name: the final component, None (the empty text here) for
\* the root and for "..".  The paths of the model hold no "." component.
PathFileName(p) ==
    LET q == StripTrailingSlashes(p)
        name == SubSeq(q, LastIndexOf("/", q) + 1, Len(q))
    IN IF name = <<".", ".">> THEN <<>> ELSE name

\* Path::parent: the path without its final component; None for the root.
PathParent(p) ==
    LET q == StripTrailingSlashes(p)
        i == LastIndexOf("/", q)
    IN IF q = <<"/">> \/ q = <<>> THEN [some |-> FALSE, v |-> <<>>]
       ELSE IF i = 0 THEN [some |-> TRUE, v |-> <<>>]
       ELSE [some |-> TRUE, v |-> StripTrailingSlashes(SubSeq(q, 1, i))]

\* std::path's split of a file name at its last dot: <<before, after>>,
\* each an Option.  A name whose only dot is the first character is not
\* split.
SplitFileAtDot(name) ==
    LET i == LastIndexOf(".", name)
        none == [some |-> FALSE, v |-> <<>>]
    IN IF name = <<>> THEN <<none, none>>
       ELSE IF i = 0 THEN <<[some |-> TRUE, v |-> name], none>>
       ELSE IF i = 1 THEN <<[some |-> TRUE, v |-> name], none>>
       ELSE <<[some |-> TRUE, v |-> SubSeq(name, 1, i - 1)],
              [some |-> TRUE, v |-> SubSeq(name, i + 1, Len(name))]>>

\* Path::file_stem, Path::extension
PathFileStem(p) == SplitFileAtDot(PathFileName(p))[1]
PathExtension(p) == SplitFileAtDot(PathFileName(p))[2]

OrEmpty(opt) == IF opt.some THEN opt.v ELSE <<>>

\* to_dir_f after its three matches.
DirAndFile(dir_s, stem_s, ext_s) ==
    IF ext_s = <<>> THEN <<dir_s, stem_s>>
    ELSE <<dir_s, stem_s \o <<".">> \o ext_s>>

\* StringExt::to_dir_f: the (directory, file) pair of an absolute path.
to_dir_f(path) ==
    DirAndFile(OrEmpty(PathParent(path)), OrEmpty(PathFileStem(path)),
               OrEmpty(PathExtension(path)))

(***************************************************************************)
(* FileAttrs                                                               *)
(***************************************************************************)
deadbeef == <<"d", "e", "a", "d", "b", "e", "e", "f">>

\* Initial value of idf_uid / idf_gid and of size / ino / dev:
\* -1 in dired.rs, 65534 and 0 in dired_unix.rs.
NewId(impl) == IF impl = "dired" THEN Num(0, 0, -1) ELSE Num(0, 0, 65534)
NewCount(impl) == IF impl = "dired" THEN Num(0, 0, -1) ELSE Zero

\* FileAttrs::new(path, id_format); `path` is abpath (dired.rs) or fpath
\* (dired_unix.rs).
FileAttrs_new(impl, path, id_format) ==
    [use_c_internal |-> FALSE,
     path |-> path,
     ftype_is_sym |-> FALSE,
     ftype_sym_path |-> deadbeef,
     ftype_is_dir |-> FALSE,
     nlinks |-> Zero,
     id_format |-> id_format,
     idf_is_int |-> TRUE,
     idf_u_is_int |-> FALSE,
     idf_g_is_int |-> FALSE,
     idf_uid |-> NewId(impl),
     idf_gid |-> NewId(impl),
     idf_uname |-> deadbeef,
     idf_gname |-> deadbeef,
     atime_s |-> 0, atime_ns |-> 0,
     mtime_s |-> 0, mtime_ns |-> 0,
     ctime_s |-> 0, ctime_ns |-> 0,
     size |-> NewCount(impl),
     ino |-> NewCount(impl),
     dev |-> NewCount(impl)]

\* How get() and to_list() end: "ok", "err" (io::Error), "panic" (a Rust
\* unwrap on None/Err), with the struct and the calls made so far.
Step(st, a, tr) == [st |-> st, a |-> a, tr |-> tr]

\* `md.uid() as i32` (dired.rs) against `md.uid()` (dired_unix.rs)
StoreId(impl, id) == IF impl = "dired" THEN AsI32(id) ELSE id

\* `md.size() as i64`, `md.ino() as i64`, `md.dev() as i64` (dired.rs)
\* against the u64 kept (dired_unix.rs)
StoreCount(impl, n) == IF impl = "dired" THEN AsI64(n) ELSE n

\* idf_is_int with the test inverted.
IdfIsInt_inverted(id_format) == string = id_format

\* self.idf_is_int = !("string".to_owned() == self.id_format)
IdfIsInt(id_format) == ~(string = id_format)

\* get(): what follows `let pw = getpwuid(md.uid())`.
UserOf(impl, a, tr, uid, pw) ==
    IF ~pw.found
    THEN Step("ok", [a EXCEPT !.idf_u_is_int = TRUE,
                              !.idf_uid = StoreId(impl, uid)], tr)
    ELSE IF ~IsUtf8(pw.e.name) THEN Step("panic", a, tr)
    ELSE Step("ok", [a EXCEPT !.idf_uname = pw.e.name], tr)

\* get(): the getpwuid half of the id resolution.
GetUser(impl, a, tr, uid) ==
    UserOf(impl, a, Append(tr, Ev("getpwuid", <<from_natnum(uid)>>)), uid,
           getpwuid(uid))

\* get(): what follows `let gr = getgrgid(md.gid())`.
GroupOf(impl, a, tr, gid, gr) ==
    IF ~gr.found
    THEN Step("ok", [a EXCEPT !.idf_gid = StoreId(impl, gid),
                              !.idf_g_is_int = TRUE], tr)
    ELSE IF ~IsUtf8(gr.e.name) THEN Step("panic", a, tr)
    ELSE Step("ok", [a EXCEPT !.idf_gname = gr.e.name], tr)

\* get(): the getgrgid half of the id resolution, reached unless the
\* getpwuid half has panicked.
GetGroup(impl, u, gid) ==
    IF u.st # "ok" THEN u
    ELSE GroupOf(impl, u.a, Append(u.tr, Ev("getgrgid", <<from_natnum(gid)>>)),
                 gid, getgrgid(gid))

\* get(): uid and gid as numbers or names.
GetIds(impl, a, tr, md) ==
    IF IdfIsInt(a.id_format)
    THEN Step("ok", [a EXCEPT !.idf_is_int = TRUE,
                              !.idf_uid = StoreId(impl, md.uid),
                              !.idf_gid = StoreId(impl, md.gid)], tr)
    ELSE GetGroup(impl,
                  GetUser(impl, [a EXCEPT !.idf_is_int = FALSE], tr, md.uid),
                  md.gid)

\* get(): times, size, inode and device, reached unless the id resolution
\* has panicked.
GetRest(impl, ids, md) ==
    IF ids.st # "ok" THEN ids
    ELSE Step("ok", [ids.a EXCEPT !.atime_s = md.sec, !.atime_ns = md.nsec,
                                  !.mtime_s = md.sec, !.mtime_ns = md.nsec,
                                  !.ctime_s = md.sec, !.ctime_ns = md.nsec,
                                  !.size = StoreCount(impl, md.size),
                                  !.ino = StoreCount(impl, md.ino),
                                  !.dev = StoreCount(impl, md.dev)], ids.tr)

\* get(): the file type, from the outcome rl of fs::read_link.
TypeOf(impl, a, file, tr, rl) ==
    IF rl.ok
    THEN IF ~IsUtf8(rl.v.target) THEN Step("panic", a, tr)
         ELSE Step("ok", [a EXCEPT !.ftype_is_sym = TRUE,
                                   !.ftype_sym_path = rl.v.target,
                                   !.use_c_internal = TRUE], tr)
    ELSE GetRest(impl,
                 GetIds(impl, [a EXCEPT !.ftype_is_dir = (file.kind = "dir"),
                                        !.nlinks = file.st.nlink], tr, file.st),
                 file.st)

\* get(): after fs::metadata has returned md.
AfterMetadata(impl, a, md) ==
    IF ~md.ok THEN Step("err", a, <<Ev("metadata", <<LispString(a.path)>>)>>)
    ELSE TypeOf(impl, a, md.v,
                <<Ev("metadata", <<LispString(a.path)>>),
                  Ev("read_link", <<LispString(a.path)>>)>>,
                fs_read_link(a.path))

\* FileAttrs::get(&mut self) -> io::Result<()>
FileAttrs_get(impl, a) == AfterMetadata(impl, a, fs_metadata(a.path))

\* The legacy routine of the host, file_attributes_c_internal(name, dir,
\* file, id_format): the attributes of the entry itself (lstat), position 0
\* the link target for a symbolic link; uid and gid as names when id_format
\* is not nil.
LegacyIdOf(hit, id, id_format) ==
    IF is_nil(id_format) \/ ~hit.found THEN from_natnum(id)
    ELSE LispString(hit.e.name)

LegacyList(name, e, id_format) ==
    list(<<IF e.kind = "lnk" THEN LispString(e.target)
           ELSE IF e.kind = "dir" THEN Qt ELSE Qnil,
           from_natnum(e.st.nlink),
           LegacyIdOf(Lookup(pwdb, e.st.uid), e.st.uid, id_format),
           LegacyIdOf(Lookup(grdb, e.st.gid), e.st.gid, id_format),
           make_lisp_time(e.st.sec, e.st.nsec),
           make_lisp_time(e.st.sec, e.st.nsec),
           make_lisp_time(e.st.sec, e.st.nsec),
           from_natnum(e.st.size),
           filemode_string(LispString(name)),
           Qt,
           from_natnum(e.st.ino),
           from_natnum(e.st.dev)>>)

LegacyEntry(name, q, id_format) ==
    IF q \notin DOMAIN Files THEN Qnil
    ELSE IF Files[q].kind = "denied" THEN Qnil
    ELSE LegacyList(name, Files[q], id_format)

file_attributes_c_internal(name, dir, file, id_format) ==
    LegacyEntry(name, CollapseSlashes(name), id_format)

\* to_list(): the escape hatch, with (dir, f) = to_dir_f(path).
LegacyCall(a, df) ==
    [val |-> file_attributes_c_internal(a.path, LispString(df[1]),
                                        LispString(df[2]),
                                        LispString(a.id_format)),
     tr |-> <<Ev("file_attributes_c_internal",
                 <<LispString(a.path), LispString(df[1]), LispString(df[2]),
                   LispString(a.id_format)>>)>>]

ToListLegacy(a) == LegacyCall(a, to_dir_f(a.path))

\* Position 0 with the link-target branch taken for every non-directory.
TypeField_always_target(a) ==
    IF a.ftype_is_dir THEN Qt ELSE to_bstring(a.ftype_sym_path)

\* to_list(): position 0.
TypeField(a) ==
    IF a.ftype_is_sym THEN to_bstring(a.ftype_sym_path)
    ELSE IF a.ftype_is_dir THEN Qt
    ELSE Qnil

\* to_list(): position 1, `self.nlinks as i64` (dired.rs) against
\* self.nlinks (dired_unix.rs).
LinksField(impl, a) ==
    from_natnum(IF impl = "dired" THEN AsI64(a.nlinks) ELSE a.nlinks)

\* to_list(): positions 2 and 3.
UidField(a) ==
    IF a.idf_is_int \/ a.idf_u_is_int THEN from_natnum(a.idf_uid)
    ELSE to_bstring(a.idf_uname)

GidField(a) ==
    IF a.idf_is_int \/ a.idf_g_is_int THEN from_natnum(a.idf_gid)
    ELSE to_bstring(a.idf_gname)

\* FileAttrs::to_list(&self) -> LispObject, with the calls it makes.
FileAttrs_to_list(impl, a) ==
    IF a.use_c_internal THEN ToListLegacy(a)
    ELSE [val |-> list(<<TypeField(a),
                         LinksField(impl, a),
                         UidField(a),
                         GidField(a),
                         make_lisp_time(a.atime_s, a.atime_ns),
                         make_lisp_time(a.mtime_s, a.mtime_ns),
                         make_lisp_time(a.ctime_s, a.ctime_ns),
                         from_natnum(a.size),
                         filemode_string(LispString(a.path)),
                         Qt,
                         from_natnum(a.ino),
                         from_natnum(a.dev)>>),
          tr |-> <<Ev("filemode_string", <<LispString(a.path)>>)>>]

(***************************************************************************)
(* Entry points                                                            *)
(***************************************************************************)
Outcome(st, val, a, tr) == [st |-> st, val |-> val, a |-> a, tr |-> tr]

\* The value of to_list() as the outcome of the call.
Lowered(res, l) == Outcome("ret", l.val, res.a, res.tr \o l.tr)

\* `if res.is_err() { Qnil } else { attrs.to_list() }` with the io::Error
\* ignored.
AfterGet_ignoring_err(impl, res) ==
    Lowered(res, FileAttrs_to_list(impl, res.a))

\* `if res.is_err() { Qnil } else { attrs.to_list() }`
AfterGet(impl, res) ==
    IF res.st = "err" THEN Outcome("ret", Qnil, res.a, res.tr)
    ELSE IF res.st = "panic" THEN Outcome("panic", Qnil, res.a, res.tr)
    ELSE Lowered(res, FileAttrs_to_list(impl, res.a))

\* file_attributes_common (dired.rs), file_attributes_core (dired_unix.rs)
file_attributes_core(impl, path, id_format) ==
    AfterGet(impl, FileAttrs_get(impl,
                 FileAttrs_new(impl, to_stdstring(path), to_idfstring(id_format))))

\* The handler call with ID-FORMAT passed also when it is nil.
CallHandler_always_two(handler, fnexp, id_format) ==
    <<handler, Qfile_attributes, fnexp, id_format>>

\* The handler call of file_attributes / file_attributes_intro.
CallHandler(handler, fnexp, id_format) ==
    IF is_not_nil(id_format)
    THEN <<handler, Qfile_attributes, fnexp, id_format>>
    ELSE <<handler, Qfile_attributes, fnexp>>

NoAttrs == FileAttrs_new("dired_unix", <<>>, <<>>)

\* `return call!(handler, ...)`
Handled(tr, c) ==
    Outcome("ret", HandlerValue(Tail(c)), NoAttrs, Append(tr, Ev("call", c)))

\* The outcome o of the core after the calls tr.
After(tr, o) == [o EXCEPT !.tr = tr \o o.tr]

\* file_attributes with the handler lookup made after the probe.
Dispatch_probe_first(impl, filename, id_format, fnexp, handler) ==
    IF is_not_nil(handler)
    THEN Handled(After(<<Ev("Fexpand_file_name", <<filename, Qnil>>)>>,
                       file_attributes_core(impl, fnexp, id_format)).tr
                   \o <<Ev("Ffind_file_name_handler", <<fnexp, Qfile_attributes>>)>>,
                 CallHandler(handler, fnexp, id_format))
    ELSE After(<<Ev("Fexpand_file_name", <<filename, Qnil>>),
                 Ev("Ffind_file_name_handler", <<fnexp, Qfile_attributes>>)>>,
               file_attributes_core(impl, fnexp, id_format))

\* file_attributes after `let fnexp = ...; let handler = ...`.
Dispatch(impl, filename, id_format, fnexp, handler) ==
    IF is_not_nil(handler)
    THEN Handled(<<Ev("Fexpand_file_name", <<filename, Qnil>>),
                   Ev("Ffind_file_name_handler", <<fnexp, Qfile_attributes>>)>>,
                 CallHandler(handler, fnexp, id_format))
    ELSE After(<<Ev("Fexpand_file_name", <<filename, Qnil>>),
                 Ev("Ffind_file_name_handler", <<fnexp, Qfile_attributes>>)>>,
               file_attributes_core(impl, fnexp, id_format))

\* file_attributes (dired.rs), file_attributes_intro (dired_unix.rs)
file_attributes(impl, filename, id_format) ==
    Dispatch(impl, filename, id_format, Fexpand_file_name(filename),
             Ffind_file_name_handler(Fexpand_file_name(filename), Qfile_attributes))

\* The directory-relative entry delegating to the query, handler lookup
\* included.
file_attributes_internal_via_query(impl, dirname, filename, id_format) ==
    file_attributes(
        impl,
        LispString(to_stdstring(dirname) \o <<"/">> \o to_stdstring(filename)),
        id_format)

\* file_attributes_internal (dired.rs), file_attributes_rust_internal2
\* (dired_unix.rs)
file_attributes_internal(impl, dirname, filename, id_format) ==
    file_attributes_core(
        impl,
        LispString(to_stdstring(dirname) \o <<"/">> \o to_stdstring(filename)),
        id_format)

(***************************************************************************)
(* User enumeration                                                        *)
(***************************************************************************)
\* build_string((*pw).pw_name): the host string of the raw bytes.
build_string(bytes) == LispString(bytes)

\* The `while !done` loop of get_users.  pos is the cursor of getpwent;
\* failAt is the entry at which build_string signals an error of the host
\* (memory full), 0 for none: the signal leaves get_users at once.
RECURSIVE GetUsersLoop(_, _, _, _)
GetUsersLoop(pos, unames, failAt, tr) ==
    IF pos >= Len(pwdb)
    THEN [st |-> "ret", unames |-> unames, pos |-> pos,
          tr |-> Append(tr, Ev("getpwent", <<>>))]
    ELSE IF pos + 1 = failAt
    THEN [st |-> "signal", unames |-> unames, pos |-> pos + 1,
          tr |-> Append(tr, Ev("getpwent", <<>>))]
    ELSE GetUsersLoop(pos + 1, Append(unames, build_string(pwdb[pos + 1].name)),
                      failAt, Append(tr, Ev("getpwent", <<>>)))

\* The list get_users returns from the names it has read.
UsersList(unames) ==
    list(IF unames = <<>> THEN <<UserRealLoginName>> ELSE unames)

\* get_users after its loop: endpwent and the list, unless a signal has
\* left the function inside the loop.
AfterLoop(loop) ==
    IF loop.st = "signal"
    THEN [st |-> "signal", val |-> Qnil, open |-> TRUE, cursor |-> loop.pos,
          tr |-> loop.tr]
    ELSE [st |-> "ret", val |-> UsersList(loop.unames), open |-> FALSE,
          cursor |-> 0, tr |-> Append(loop.tr, Ev("endpwent", <<>>))]

\* get_users() of either file: the value, and the cursor it leaves.  The
\* first getpwent opens the cursor at the first entry unless it is open.
get_users(failAt) ==
    AfterLoop(GetUsersLoop(IF pwopen THEN pwcursor ELSE 0, <<>>, failAt, <<>>))

(***************************************************************************)
(* Inputs                                                                  *)
(***************************************************************************)
Filenames ==
    {LispString(p) : p \in {P_f, P_d, P_m, P_b, P_l, P_k, P_g, P_o, P_p, P_x,
                            P_rf, P_rx, P_bad, P_u, P_dot_end, P_dot_start,
                            P_dots, <<"f">>, <<"r", "/", "f">>}}

IdFormats ==
    {Qnil,
     Symbol(string),
     LispString(string),
     Symbol(<<"i", "n", "t", "e", "g", "e", "r">>),
     Symbol(<<"S", "t", "r", "i", "n", "g">>),
     LispString(<<"S", "T", "R", "I", "N", "G">>),
     Symbol(<<"s", "t", "r", "i", "n">>)}

Dirnames == {LispString(d) : d \in {<<>>, P_d, <<"/", "d", "/">>, <<"/", "r">>}}

Basenames == {LispString(<<c>>) : c \in {"f", "x", "l", "m", "b"}}

(***************************************************************************)
(* The state machine                                                       *)
(***************************************************************************)
Call(op, impl, dirname, filename, id_format, failAt) ==
    [op |-> op, impl |-> impl, dirname |-> dirname, filename |-> filename,
     id_format |-> id_format, failAt |-> failAt]

NoCall == Call("none", "dired", Qnil, Qnil, Qnil, 0)

\* No call is running: the host is between two calls.
Idle == call = NoCall

Init ==
    /\ pwdb \in SeqsUpTo(PwEntries, MaxUsers)
    /\ grdb \in SeqsUpTo(GrEntries, MaxGroups)
    /\ pwopen = FALSE
    /\ pwcursor = 0
    /\ call = NoCall
    /\ attrs = NoAttrs
    /\ result = [st |-> "none", val |-> Qnil]
    /\ trace = <<>>

\* The call c has run with outcome o.
Ran(c, o) ==
    /\ call' = c
    /\ attrs' = o.a
    /\ result' = [st |-> o.st, val |-> o.val]
    /\ trace' = o.tr

\* (file-attributes FILENAME ID-FORMAT)
FileAttributes ==
    /\ Idle
    /\ \E impl \in Impls, filename \in Filenames, id_format \in IdFormats :
        Ran(Call("file_attributes", impl, Qnil, filename, id_format, 0),
            file_attributes(impl, filename, id_format))
    /\ UNCHANGED <<pwdb, grdb, pwopen, pwcursor>>

\* file_attributes_internal(dirname, filename, id_format), called by the
\* directory lister of the host.
FileAttributesInternal ==
    /\ Idle
    /\ \E impl \in Impls, dirname \in Dirnames, filename \in Basenames,
          id_format \in IdFormats :
        Ran(Call("file_attributes_internal", impl, dirname, filename,
                 id_format, 0),
            file_attributes_internal(impl, dirname, filename, id_format))
    /\ UNCHANGED <<pwdb, grdb, pwopen, pwcursor>>

\* The cursor get_users leaves.
Left(o) ==
    /\ attrs' = NoAttrs
    /\ result' = [st |-> o.st, val |-> o.val]
    /\ trace' = o.tr
    /\ pwopen' = o.open
    /\ pwcursor' = o.cursor

\* (system-users)
SystemUsers ==
    /\ Idle
    /\ \E impl \in Impls, failAt \in 0..Len(pwdb) :
        /\ call' = Call("system_users", impl, Qnil, Qnil, Qnil, failAt)
        /\ Left(get_users(failAt))
    /\ UNCHANGED <<pwdb, grdb>>

\* The host has taken the outcome of the call (the value, the signal or the
\* panic); the process-global cursor stays as the call left it.
Return ==
    /\ ~Idle
    /\ call' = NoCall
    /\ attrs' = NoAttrs
    /\ result' = [st |-> "none", val |-> Qnil]
    /\ trace' = <<>>
    /\ UNCHANGED <<pwdb, grdb, pwopen, pwcursor>>

Next == FileAttributes \/ FileAttributesInternal \/ SystemUsers \/ Return

Spec == Init /\ [][Next]_vars


(***************************************************************************)
(* Vocabulary of the properties                                            *)
(***************************************************************************)
IsQuery == call.op = "file_attributes"
IsQueryWithParent == call.op = "file_attributes_internal"

\* The normalized path of the running query.
NormalizedPath == Fexpand_file_name(call.filename)

\* A handler is registered for the path of the running query.
HandlerRegistered ==
    IsQuery /\ is_not_nil(Ffind_file_name_handler(NormalizedPath, Qfile_attributes))

\* The running call is a query that no handler takes over.
PlainQuery == IsQuery /\ ~HandlerRegistered

\* The path the running query probes.
ProbedPath == from_utf8_lossy(NormalizedPath.s)

StatSucceeds == fs_metadata(ProbedPath).ok
LinkReadSucceeds == fs_read_link(ProbedPath).ok

\* The entry a successful stat of the probed path reports.
StatEntry == fs_metadata(ProbedPath).v

TraceFns == {trace[i].fn : i \in DOMAIN trace}

FilesystemFns == {"metadata", "read_link", "filemode_string",
                  "file_attributes_c_internal"}
IdDatabaseFns == {"getpwuid", "getgrgid"}

Returned == result.st = "ret"
ReturnedRecord == Returned /\ result.val.k = "list" /\ Len(result.val.s) = 12
ReturnedNil == Returned /\ result.val = Qnil

\* Position i (0..11) of the returned record.
Position(i) == result.val.s[i + 1]

(***************************************************************************)
(* C1: a query on a symbolic link whose target does not exist (the         *)
(* link-read succeeds, the follow-mode stat fails) returns a 12-tuple      *)
(* whose position 0 is the link target as stored, never the null-sentinel. *)
(***************************************************************************)
C1_DanglingLinkYieldsTarget ==
    (PlainQuery /\ LinkReadSucceeds /\ ~StatSucceeds)
        => /\ ReturnedRecord
           /\ Position(0) = LispString(fs_read_link(ProbedPath).v.target)

(***************************************************************************)
(* C2: when the registry returns a handler for the normalized path, the    *)
(* query makes no stat, no link-read, no passwd/group lookup and no        *)
(* mode-string call, and returns exactly the handler's value; in every     *)
(* query the handler lookup precedes every filesystem access.              *)
(***************************************************************************)
C2_HandlerShortCircuit ==
    /\ HandlerRegistered
         => /\ TraceFns \cap (FilesystemFns \cup IdDatabaseFns) = {}
            /\ trace[Len(trace)].fn = "call"
            /\ Returned
            /\ result.val = HandlerValue(Tail(trace[Len(trace)].args))
    /\ IsQuery
         => \A i \in DOMAIN trace :
                trace[i].fn \in FilesystemFns \cup IdDatabaseFns
                    => \E j \in 1..(i - 1) : trace[j].fn = "Ffind_file_name_handler"

C2_Witness ==
    /\ HandlerRegistered
    /\ fs_metadata(ProbedPath).ok
    /\ call.id_format = Symbol(string)
    /\ result.val.k = "handled"

(***************************************************************************)
(* C3: a query without handler whose metadata read fails with any I/O      *)
(* error returns the null-sentinel and raises no error; it makes no        *)
(* id-database lookup, no mode-string call and no legacy-routine call.     *)
(***************************************************************************)
C3_NotAccessibleYieldsNil ==
    (PlainQuery /\ ~StatSucceeds)
        => /\ ReturnedNil
           /\ TraceFns \cap (IdDatabaseFns \cup {"filemode_string",
                                                 "file_attributes_c_internal"}) = {}

C3_Witness ==
    /\ PlainQuery
    /\ fs_metadata(ProbedPath).errno = "ELOOP"
    /\ call.id_format = Symbol(string)
    /\ ReturnedNil


\* The caller's ID-FORMAT asks for names: it is not null and its text is
\* `string` up to the case of the letters.
SameLetter(c, d) ==
    \/ c = d
    \/ \E i \in DOMAIN Upper : {c, d} = {Upper[i], Lower[i]}

EqualIgnoringCase(s, u) ==
    Len(s) = Len(u) /\ \A i \in DOMAIN s : SameLetter(s[i], u[i])

NamesRequested(id_format) ==
    is_not_nil(id_format) /\ EqualIgnoringCase(id_format.s, string)

\* The running query has stat'ed an entry that is not a symbolic link.
PlainFileQuery == PlainQuery /\ StatSucceeds /\ ~LinkReadSucceeds

\* What the passwd / group lookup of the stat'ed ids returns.
PasswdEntry == getpwuid(StatEntry.st.uid)
GroupEntry == getgrgid(StatEntry.st.gid)

(***************************************************************************)
(* C4: for a non-symlink path whose stat succeeds and ID-FORMAT `string`,  *)
(* position 2 is the passwd name when the passwd lookup of the uid returns *)
(* an entry and the integer uid exactly when it returns nothing; position  *)
(* 3 likewise with the group lookup of the gid; the two fallbacks are      *)
(* independent of each other.                                              *)
(***************************************************************************)
C4_NameOrIdPerLookup ==
    (PlainFileQuery /\ NamesRequested(call.id_format) /\ ReturnedRecord)
        => /\ Position(2) = IF PasswdEntry.found
                            THEN LispString(PasswdEntry.e.name)
                            ELSE from_natnum(StatEntry.st.uid)
           /\ Position(3) = IF GroupEntry.found
                            THEN LispString(GroupEntry.e.name)
                            ELSE from_natnum(StatEntry.st.gid)

(***************************************************************************)
(* C5: for a non-symlink path whose stat succeeds and a Numeric ID-FORMAT  *)
(* (`integer` or absent), positions 2 and 3 are integers and neither the   *)
(* passwd nor the group database is consulted during the call.             *)
(***************************************************************************)
C5_NumericConsultsNoDatabase ==
    (PlainFileQuery /\ ~NamesRequested(call.id_format))
        => /\ ReturnedRecord
           /\ Position(2).k = "natnum"
           /\ Position(3).k = "natnum"
           /\ TraceFns \cap IdDatabaseFns = {}

C5_Witness ==
    /\ PlainFileQuery
    /\ call.id_format = Symbol(<<"i", "n", "t", "e", "g", "e", "r">>)
    /\ PasswdEntry.found
    /\ GroupEntry.found
    /\ ReturnedRecord
    /\ Position(2).k = "natnum"

(***************************************************************************)
(* C6: the format is String exactly when the caller's ID-FORMAT, taken as  *)
(* text from the symbol or string and compared without regard to case,     *)
(* equals `string`; every other input (null, `integer`, a misspelling) is  *)
(* Numeric.                                                                *)
(***************************************************************************)
C6_IdFormatParsing ==
    /\ "metadata" \in TraceFns
         => ((attrs.id_format = string) <=> NamesRequested(call.id_format))
    /\ PlainFileQuery
         => /\ attrs.idf_is_int <=> ~NamesRequested(call.id_format)
            /\ ("getpwuid" \in TraceFns) <=> NamesRequested(call.id_format)

C6_Witness ==
    /\ PlainFileQuery
    /\ call.id_format = LispString(<<"S", "T", "R", "I", "N", "G">>)
    /\ ~attrs.idf_is_int
    /\ "getpwuid" \in TraceFns

(***************************************************************************)
(* C7: for a non-symlink path whose stat succeeds, position 0 is the       *)
(* true-sentinel for a directory and the null-sentinel otherwise, never a  *)
(* string; no record the core builds itself carries the placeholder        *)
(* link-target value.                                                      *)
(***************************************************************************)
C7_TypeFieldOfNonLink ==
    /\ (PlainFileQuery /\ ReturnedRecord)
         => /\ Position(0) = IF StatEntry.kind = "dir" THEN Qt ELSE Qnil
            /\ Position(0).k # "string"
    /\ (ReturnedRecord /\ "file_attributes_c_internal" \notin TraceFns)
         => Position(0).s # deadbeef

C7_Witness ==
    /\ PlainFileQuery
    /\ ReturnedRecord
    /\ StatEntry.kind = "dir"
    /\ Position(0) = Qt

(***************************************************************************)
(* C8: for a non-symlink path whose stat succeeds and every unsigned       *)
(* 64-bit link count, size, inode and device the stat may report, the      *)
(* values handed to the host's non-negative-integer constructor for        *)
(* positions 1, 7, 10 and 11 are non-negative and equal the reported ones. *)
(***************************************************************************)
C8_CountsHandedUnchanged ==
    (PlainFileQuery /\ ReturnedRecord)
        => /\ \A i \in {1, 7, 10, 11} :
                Position(i).k = "natnum" /\ IsNonNegative(Position(i).n)
           /\ Position(1).n = StatEntry.st.nlink
           /\ Position(7).n = StatEntry.st.size
           /\ Position(10).n = StatEntry.st.ino
           /\ Position(11).n = StatEntry.st.dev

\* The sequence the enumeration of the unchanged database yields from its
\* first entry.
AllUserNames == [i \in DOMAIN pwdb |-> LispString(pwdb[i].name)]

(***************************************************************************)
(* C9: list_users always yields a non-empty sequence and is idempotent:    *)
(* with the database unchanged every call returns the same sequence, the   *)
(* enumeration from the first entry; when the enumeration is empty the     *)
(* result is the one-element sequence of the real login name.              *)
(***************************************************************************)
C9_ListUsersIdempotent ==
    (call.op = "system_users" /\ Returned)
        => /\ result.val.k = "list"
           /\ result.val.s # <<>>
           /\ result.val.s = IF pwdb = <<>> THEN <<UserRealLoginName>>
                             ELSE AllUserNames

(***************************************************************************)
(* C10: the user-database cursor opened by the first read of a list_users  *)
(* call is closed on every exit path of the call, the error exit raised    *)
(* while a name is converted to a host string included: after list_users   *)
(* ends in any way no cursor is left open.                                 *)
(***************************************************************************)
C10_CursorClosedOnEveryExit ==
    call.op = "system_users" => ~pwopen


\* The arguments of the last call of the trace.
LastCallArgs == trace[Len(trace)].args

(***************************************************************************)
(* C11: when the query finds a handler it calls it with the operation key  *)
(* and the normalized path (not the caller's raw filename), followed by    *)
(* the caller's ID-FORMAT exactly when that is not null; with ID-FORMAT    *)
(* null the path is the handler's single argument.                         *)
(***************************************************************************)
C11_HandlerArguments ==
    HandlerRegistered
        => /\ trace[Len(trace)].fn = "call"
           /\ LastCallArgs[1] = TheHandler
           /\ LastCallArgs[2] = Qfile_attributes
           /\ LastCallArgs[3] = NormalizedPath
           /\ is_nil(call.id_format) => Len(LastCallArgs) = 3
           /\ is_not_nil(call.id_format)
                => Len(LastCallArgs) = 4 /\ LastCallArgs[4] = call.id_format

C11_Witness ==
    /\ HandlerRegistered
    /\ call.filename # NormalizedPath
    /\ is_nil(call.id_format)
    /\ Len(LastCallArgs) = 3
    /\ LastCallArgs[3].s = DefaultDirectory \o call.filename.s


\* dirname + "/" + filename of the running directory-relative query.
ParentPath ==
    LispString(from_utf8_lossy(call.dirname.s) \o <<"/">>
               \o from_utf8_lossy(call.filename.s))

\* The running call has ended as the outcome o.
EndedAs(o) == result = [st |-> o.st, val |-> o.val] /\ attrs = o.a

\* o without the calls of the normalisation and of the handler lookup.
ProbeAndLower(o) == SubSeq(o.tr, 3, Len(o.tr))

(***************************************************************************)
(* C12: query_with_parent never performs a handler lookup, also when a     *)
(* handler is registered for dirname + "/" + filename: it builds that path *)
(* and probes and lowers it directly, so that for a path without handler   *)
(* its result is the one the probe-and-lower step of query gives on the    *)
(* same path.                                                              *)
(***************************************************************************)
C12_ParentQueryBypassesHandler ==
    IsQueryWithParent
        => /\ TraceFns \cap {"Fexpand_file_name", "Ffind_file_name_handler",
                             "call"} = {}
           /\ trace # <<>>
           /\ trace[1] = Ev("metadata", <<ParentPath>>)
           /\ (/\ is_nil(Ffind_file_name_handler(ParentPath, Qfile_attributes))
               /\ Fexpand_file_name(ParentPath) = ParentPath
               /\ CollapseSlashes(ParentPath.s) = ParentPath.s)
                => /\ EndedAs(file_attributes(call.impl, ParentPath,
                                              call.id_format))
                   /\ trace = ProbeAndLower(file_attributes(call.impl, ParentPath,
                                                            call.id_format))

C12_Witness ==
    /\ IsQueryWithParent
    /\ ParentPath.s = P_rf
    /\ is_not_nil(Ffind_file_name_handler(ParentPath, Qfile_attributes))
    /\ ReturnedRecord
    /\ Position(8) = filemode_string(ParentPath)


(***************************************************************************)
(* C13: the id resolution never fails: for ID-FORMAT `string` and every    *)
(* outcome of the passwd and group lookups (no entry, an entry with any    *)
(* name bytes, a name that is not valid UTF-8 included) the query ends by  *)
(* returning a record that has a name or the numeric id at positions 2 and *)
(* 3; no lookup outcome aborts the call.                                   *)
(***************************************************************************)
C13_IdResolutionNeverFails ==
    (PlainFileQuery /\ NamesRequested(call.id_format))
        => /\ ReturnedRecord
           /\ Position(2).k \in {"string", "natnum"}
           /\ Position(3).k \in {"string", "natnum"}


\* Position i holds an integer id.
IntegerAt(i) == Position(i).k = "natnum"

(***************************************************************************)
(* C14: whenever position 2 or 3 of the record is an integer (Numeric      *)
(* format, or String format with a failed lookup), the value handed to     *)
(* from_natnum equals the raw uid or gid that stat reports, for every id   *)
(* of 0..2^32-1, ids at or above 2^31 included; it is never negative.      *)
(***************************************************************************)
C14_IntegerIdIsRawId ==
    (PlainFileQuery /\ ReturnedRecord)
        => /\ IntegerAt(2) => /\ Position(2).n = StatEntry.st.uid
                              /\ IsNonNegative(Position(2).n)
           /\ IntegerAt(3) => /\ Position(3).n = StatEntry.st.gid
                              /\ IsNonNegative(Position(3).n)


\* The calls of the legacy routine the running query has made.
LegacyCalls ==
    {trace[i].args : i \in {j \in DOMAIN trace :
                              trace[j].fn = "file_attributes_c_internal"}}

(***************************************************************************)
(* C15: in the symlink escape hatch the id-format argument the legacy      *)
(* routine receives is the caller's ID-FORMAT unchanged: the null-sentinel *)
(* when the caller omitted ID-FORMAT, the caller's own symbol or string    *)
(* otherwise.                                                              *)
(***************************************************************************)
C15_LegacyReceivesCallersIdFormat ==
    \A args \in LegacyCalls : args[4] = call.id_format


(***************************************************************************)
(* C16: in the symlink escape hatch, for every absolute symlink path the   *)
(* (dir, name) pair handed to the legacy routine has as name exactly the   *)
(* final component of the path and as dir exactly its parent directory,    *)
(* for every file name: names that end in a dot, that start with a dot and *)
(* that hold several dots included.                                        *)
(***************************************************************************)
C16_DirAndNameOfLegacyCall ==
    \A args \in LegacyCalls :
        /\ args[2] = LispString(PathParent(args[1].s).v)
        /\ args[3] = LispString(PathFileName(args[1].s))


=============================================================================
